---- MODULE Spec2Model ----
(***************************************************************************)
(* Model of the rancher macvlan CNI plugin (macvlan.go): the ADD and DEL   *)
(* commands, createMacvlan, and the kernel / IPAM / lookup collaborators   *)
(* they drive.  One command runs at a time on one locked OS thread; every  *)
(* step of a command is one action, selected by pc.                        *)
(***************************************************************************)
EXTENDS Integers, Sequences, FiniteSets, TLC

(* ------------------------------ bounds -------------------------------- *)

\* number of command invocations in one behaviour
MaxCmds == 2
\* longest route list the IPAM plugin returns
MaxRoutes == 2

(* --------------------------- program constants ------------------------ *)

IPv4InterfaceArpProxySysctlTemplate == <<"net.ipv4.conf.", ".proxy_arp">>

\* netlink.MACVLAN_MODE_* as returned by modeFromString
MACVLAN_MODE_PRIVATE == "MACVLAN_MODE_PRIVATE"
MACVLAN_MODE_VEPA == "MACVLAN_MODE_VEPA"
MACVLAN_MODE_BRIDGE == "MACVLAN_MODE_BRIDGE"
MACVLAN_MODE_PASSTHRU == "MACVLAN_MODE_PASSTHRU"

(* ------------------------------ net.IP -------------------------------- *)

\* a net.IP is a byte slice: empty (nil), 4 bytes (IPv4len), or 16 bytes
\* (IPv6len)
NilIP == <<>>
v4InV6Prefix == <<0, 0, 0, 0, 0, 0, 0, 0, 0, 0, 255, 255>>

\* net.IP.To4: the 4-byte form of an IPv4 address, nil for anything else
To4(ip) ==
    IF Len(ip) = 4 THEN ip
    ELSE IF Len(ip) = 16 /\ SubSeq(ip, 1, 12) = v4InV6Prefix
         THEN SubSeq(ip, 13, 16)
         ELSE NilIP

\* net.IP.Equal: an IPv4 address and its 16-byte form are equal
IPEqual(ip, x) ==
    IF Len(ip) = Len(x) THEN ip = x
    ELSE IF Len(ip) = 4 /\ Len(x) = 16
         THEN SubSeq(x, 1, 12) = v4InV6Prefix /\ ip = SubSeq(x, 13, 16)
    ELSE IF Len(ip) = 16 /\ Len(x) = 4
         THEN SubSeq(ip, 1, 12) = v4InV6Prefix /\ SubSeq(ip, 13, 16) = x
    ELSE FALSE

\* net.IPNet.String: the network number in its shortest form and the prefix
\* length; the text "a.b.c.d/n" is represented by the pair <<bytes, n>>
IPNetString(n) ==
    LET nn == IF To4(n.IP) # NilIP THEN To4(n.IP) ELSE n.IP
    IN  <<nn, n.Ones>>

\* net.ParseCIDR("0.0.0.0/0"): the network of the parsed prefix
defaultNet == [IP |-> <<0, 0, 0, 0>>, Ones |-> 0]

(* ------------------------- input value sets --------------------------- *)

GwA == <<10, 0, 0, 1>>
GwA16 == v4InV6Prefix \o GwA
GwB == <<10, 0, 0, 2>>

\* destinations the IPAM plugin may return
DstDefault16 == [IP |-> v4InV6Prefix \o <<0, 0, 0, 0>>, Ones |-> 0]
DstV6Default == [IP |-> <<0, 0, 0, 0, 0, 0, 0, 0, 0, 0, 0, 0, 0, 0, 0, 0>>, Ones |-> 0]
DstLan == [IP |-> <<10, 0, 0, 0>>, Ones |-> 24]

\* types.Route values the IPAM plugin may return
RouteValues ==
    { [Dst |-> defaultNet, GW |-> NilIP],
      [Dst |-> defaultNet, GW |-> GwA],
      [Dst |-> DstDefault16, GW |-> GwA16],
      [Dst |-> DstLan, GW |-> NilIP],
      [Dst |-> DstV6Default, GW |-> GwB] }

GatewayValues == {NilIP, GwA, GwB}

RECURSIVE SeqsUpTo(_, _)
SeqsUpTo(S, n) ==
    IF n = 0 THEN {<<>>}
    ELSE LET shorter == SeqsUpTo(S, n - 1)
         IN  shorter \cup {Append(s, x) : s \in {t \in shorter : Len(t) = n - 1}, x \in S}

RouteLists == SeqsUpTo(RouteValues, MaxRoutes)

\* NetConf values read from stdin (valid = the JSON parses)
MasterNames == {"eth0", "", "eth9"}
ModeNames == {"", "vepa", "macvtap"}
MTUValues == {1400}
DNSValues == {"10.0.0.53"}

\* the name server in the DNS section of the IPAM plugin's result
IpamDNS == "10.9.9.9"

\* CmdArgs values
IfNames == {"eth0"}
NsGood == "/proc/c1/ns/net"
NsGone == "/proc/gone/ns/net"
NetnsPaths == {"", NsGood, NsGone}
MACOverrides == {"", "aa:bb:cc:dd:ee:ff"}
LookupMACs == {"02:11:22:33:44:55"}


\* ip.RandomVethName returns "veth" and four random bytes in hex; the pool
\* holds one name of that shape for every command of a run, so a command can
\* always draw a name no earlier command left behind
TmpNamePool == <<"veth1a2b3c4d", "veth5e6f7a8b", "veth9c0d1e2f", "veth3a4b5c6d">>
TmpNames == {TmpNamePool[i] : i \in 1..(IF MaxCmds < Len(TmpNamePool) THEN MaxCmds
                                         ELSE Len(TmpNamePool))}

(* ------------------------------- state -------------------------------- *)

VARIABLES
    pc,               \* position of the command thread
    cmd,              \* "none", "ADD" or "DEL": the verb skel.PluginMain dispatched
    conf,             \* the NetConf on stdin
    args,             \* skel.CmdArgs and the NetArgs parsed from args.Args
    hostLinks,        \* links of the calling (host) namespace
    nsLinks,          \* links of the container's namespace at NsGood
    curNs,            \* namespace of the locked OS thread: "host" or "target"
    threadNS,         \* the namespace netns.Do saved on entry, "none" outside a block
    handle,           \* the ns.NetNS opened by cmdAdd: "none", "open", "closed"
    cm,               \* createMacvlan's locals: mode, m (master index), tmpName
    result,           \* the IPAM result held by cmdAdd
    macAddressToSet,  \* cmdAdd's local of that name
    applied,          \* what the interface helpers were handed in this command
    ipam0,            \* the result exactly as ipam.ExecAdd returned it
    ret,              \* the command's outcome: "none", "ok" or an error
    trace,            \* collaborator calls of the running command, in order
    nsLinks0,         \* nsLinks when the running command started
    provisioned,      \* an ADD finished its link step and no DEL removed the link since
    ncmds             \* commands started so far

vars == <<pc, cmd, conf, args, hostLinks, nsLinks, curNs, threadNS, handle, cm, result,
          macAddressToSet, applied, ipam0, ret, trace, nsLinks0, provisioned,
          ncmds>>

NoConf == [valid |-> FALSE, Master |-> "", Mode |-> "", MTU |-> 0, IsDefaultGW |-> FALSE,
           DNS |-> ""]
NoArgs == [valid |-> FALSE, IfName |-> "", Netns |-> "", MACAddress |-> ""]
NoCm == [mode |-> "", m |-> 0, tmpName |-> ""]
NoResult == [set |-> FALSE, IP4 |-> FALSE, Gateway |-> NilIP, Routes |-> <<>>, DNS |-> ""]
NoApplied == [mac |-> "", called |-> FALSE, Routes |-> <<>>]

\* the host has a loopback and the physical NIC
HostLinks0 ==
    { [name |-> "lo", index |-> 1, type |-> "device"],
      [name |-> "eth0", index |-> 2, type |-> "device"] }

Init ==
    /\ pc = "idle"
    /\ cmd = "none"
    /\ conf = NoConf
    /\ args = NoArgs
    /\ hostLinks = HostLinks0
    /\ nsLinks = {}
    /\ curNs = "host"
    /\ threadNS = "none"
    /\ handle = "none"
    /\ cm = NoCm
    /\ result = NoResult
    /\ macAddressToSet = ""
    /\ applied = NoApplied
    /\ ipam0 = NoResult
    /\ ret = "none"
    /\ trace = <<>>
    /\ nsLinks0 = {}
    /\ provisioned = FALSE
    /\ ncmds = 0

(* ------------------------ kernel link capability ---------------------- *)

Names(links) == {l.name : l \in links}

\* the links netlink sees: those of the thread's current namespace
CurLinks == IF curNs = "host" THEN hostLinks ELSE nsLinks

\* netlink.LinkByName in a set of links: the links of that name (none on error)
LinkByName(links, name) == {l \in links : l.name = name}

\* ns.GetNS: a path can be opened iff a namespace is bound there
NsOpens(path) == path = NsGood

\* netlink.LinkSetName on the target namespace
Renamed(links, cur, new) ==
    {IF l.name = cur THEN [l EXCEPT !.name = new] ELSE l : l \in links}

\* netlink.LinkDel of the link of that name
Deleted(links, name) == {l \in links : l.name # name}

(* ----------------------------- macvlan.go ----------------------------- *)

\* loadConf: the JSON must parse and "master" must be set
loadConf(c) == IF ~c.valid THEN "InvalidConfig"
               ELSE IF c.Master = "" THEN "InvalidConfig"
               ELSE "ok"

\* loadNetArgs
loadNetArgs(a) == IF ~a.valid THEN "InvalidConfig" ELSE "ok"

\* modeFromString
modeFromString(s) ==
    CASE s \in {"", "bridge"} -> [mode |-> MACVLAN_MODE_BRIDGE, err |-> FALSE]
      [] s = "private" -> [mode |-> MACVLAN_MODE_PRIVATE, err |-> FALSE]
      [] s = "vepa" -> [mode |-> MACVLAN_MODE_VEPA, err |-> FALSE]
      [] s = "passthru" -> [mode |-> MACVLAN_MODE_PASSTHRU, err |-> FALSE]
      [] OTHER -> [mode |-> "", err |-> TRUE]

\* a createMacvlan that forgets conf.MTU
MacvlanWithoutMTU(c, tmpName, masterIndex, mode) ==
    [name |-> tmpName, type |-> "macvlan", parent |-> masterIndex,
     mode |-> mode, mtu |-> 0, up |-> FALSE]

\* a createMacvlan that creates the link under the final name
MacvlanFinalName(c, tmpName, masterIndex, mode) ==
    [name |-> args.IfName, type |-> "macvlan", parent |-> masterIndex,
     mode |-> mode, mtu |-> c.MTU, up |-> FALSE]

\* the netlink.Macvlan createMacvlan hands to LinkAdd
Macvlan(c, tmpName, masterIndex, mode) ==
    [name |-> tmpName, type |-> "macvlan", parent |-> masterIndex,
     mode |-> mode, mtu |-> c.MTU, up |-> FALSE]

\* a cmdAdd without the deferred Close
ClosedNever(h) == h

\* deferred netns.Close() of cmdAdd, run by every return after ns.GetNS
Closed(h) == IF h = "open" THEN "closed" ELSE h
CloseEvents(h) == IF h = "open" THEN <<"close">> ELSE <<>>

\* a return of cmdAdd / cmdDel with outcome e after the calls evs
Return(e, evs) ==
    /\ pc' = "done"
    /\ ret' = e
    /\ handle' = Closed(handle)
    /\ trace' = trace \o evs \o CloseEvents(handle)

\* a step that moves on to label l after the calls evs
Goto(l, evs) ==
    /\ pc' = l
    /\ trace' = trace \o evs
    /\ UNCHANGED <<ret, handle>>

inputs == <<cmd, conf, args, nsLinks0, ncmds>>
thread == <<curNs, threadNS>>

\* a netns.Do without the deferred threadNS.Set()
RestoreNever(saved) == curNs

\* netns.Do: the deferred threadNS.Set() puts the thread back into the
\* namespace saved on entry
Restore(saved) == saved
kernel == <<hostLinks, nsLinks>>
locals == <<cm, result, macAddressToSet, applied, ipam0>>

(* ------------------------------ cmdAdd -------------------------------- *)

\* skel.PluginMain dispatches ADD with the runtime's stdin, args and environment
StartAdd ==
    /\ pc = "idle"
    /\ ncmds < MaxCmds
    /\ \E v \in BOOLEAN, ma \in MasterNames, mo \in ModeNames, mtu \in MTUValues,
          gw \in BOOLEAN, dns \in DNSValues :
         conf' = [valid |-> v, Master |-> ma, Mode |-> mo, MTU |-> mtu,
                  IsDefaultGW |-> gw, DNS |-> dns]
    /\ \E v \in BOOLEAN, i \in IfNames, n \in NetnsPaths, mac \in MACOverrides :
         args' = [valid |-> v, IfName |-> i, Netns |-> n, MACAddress |-> mac]
    /\ cmd' = "ADD"
    /\ pc' = "add_load"
    /\ nsLinks0' = nsLinks
    /\ ncmds' = ncmds + 1
    /\ UNCHANGED <<kernel, provisioned, thread, handle, locals, ret, trace>>

\* cmdAdd: loadConf, then loadNetArgs
AddLoad ==
    /\ pc = "add_load"
    /\ IF loadConf(conf) # "ok" THEN Return(loadConf(conf), <<>>)
       ELSE IF loadNetArgs(args) # "ok" THEN Return(loadNetArgs(args), <<>>)
       ELSE Goto("add_getns", <<>>)
    /\ UNCHANGED <<inputs, provisioned, kernel, locals, thread>>

\* cmdAdd: ns.GetNS(args.Netns) and the deferred Close
AddGetNS ==
    /\ pc = "add_getns"
    /\ IF NsOpens(args.Netns)
       THEN /\ pc' = "add_check"
            /\ handle' = "open"
            /\ trace' = trace \o <<"getns:ok">>
            /\ ret' = ret
       ELSE Return("NamespaceNotFound", <<"getns:err">>)
    /\ UNCHANGED <<inputs, provisioned, kernel, locals, thread>>

\* checkIfContainerInterfaceExists: is there a link args.IfName in the
\* container's namespace
checkIfContainerInterfaceExists(a) == LinkByName(nsLinks, a.IfName) # {}

\* a cmdAdd that creates the link whatever the check says
CreateAlways(exists) == TRUE

\* cmdAdd: createMacvlan is called only when the interface is absent
CreateNeeded(exists) == ~exists

\* cmdAdd: the branch on checkIfContainerInterfaceExists
AddCheckInterface ==
    /\ pc = "add_check"
    /\ LET exists == checkIfContainerInterfaceExists(args)
           ev == IF exists THEN "check:present" ELSE "check:absent"
       IN  IF CreateNeeded(exists)
           THEN Goto("cm_mode", <<ev, "createMacvlan">>)
           ELSE Goto("add_setdown", <<ev>>)
    /\ UNCHANGED <<inputs, provisioned, kernel, locals, thread>>

\* setInterfaceDown: the link named ifName goes administratively down
InterfaceDown(links, name) ==
    {IF l.name = name THEN [l EXCEPT !.up = FALSE] ELSE l : l \in links}

\* cmdAdd: setInterfaceDown on the existing interface; its error is only logged
AddSetInterfaceDown ==
    /\ pc = "add_setdown"
    /\ \/ /\ nsLinks' = InterfaceDown(nsLinks, args.IfName)
          /\ Goto("add_ipam", <<"setdown:ok">>)
       \/ /\ nsLinks' = nsLinks
          /\ Goto("add_ipam", <<"setdown:err">>)
    /\ provisioned' = TRUE
    /\ UNCHANGED <<inputs, hostLinks, locals, thread>>

(* --------------------------- createMacvlan ---------------------------- *)

\* createMacvlan: modeFromString(conf.Mode)
CmMode ==
    /\ pc = "cm_mode"
    /\ LET r == modeFromString(conf.Mode)
       IN  IF r.err
           THEN Return("InvalidConfig", <<>>) /\ cm' = cm
           ELSE Goto("cm_master", <<>>) /\ cm' = [cm EXCEPT !.mode = r.mode]
    /\ UNCHANGED <<inputs, provisioned, kernel, result, macAddressToSet, applied, ipam0, thread>>

\* createMacvlan: netlink.LinkByName(conf.Master) in the thread's namespace
CmMaster ==
    /\ pc = "cm_master"
    /\ LET found == LinkByName(CurLinks, conf.Master)
       IN  IF found = {}
           THEN Return("MasterNotFound", <<"master:err">>) /\ cm' = cm
           ELSE /\ Goto("cm_tmpname", <<"master:ok">>)
                /\ cm' = [cm EXCEPT !.m = (CHOOSE l \in found : TRUE).index]
    /\ UNCHANGED <<inputs, provisioned, kernel, result, macAddressToSet, applied, ipam0, thread>>

\* the names ip.RandomVethName can return that differ in effect: each name
\* some link already has, and one name no link has (unused names are
\* interchangeable, the first of the pool stands for all of them)
RandomVethNames(links) ==
    LET taken == {t \in TmpNames : t \in Names(links)}
        free == {i \in 1..Len(TmpNamePool) :
                    TmpNamePool[i] \in TmpNames /\ TmpNamePool[i] \notin Names(links)}
    IN  taken \cup {TmpNamePool[i] : i \in {j \in free : \A k \in free : j <= k}}

\* createMacvlan: ip.RandomVethName, a random name or the random source's error
CmTmpName ==
    /\ pc = "cm_tmpname"
    /\ \/ \E t \in RandomVethNames(hostLinks \cup nsLinks) :
            /\ cm' = [cm EXCEPT !.tmpName = t]
            /\ Goto("cm_linkadd", <<>>)
       \/ /\ cm' = cm
          /\ Return("RandomNameFailed", <<>>)
    /\ UNCHANGED <<inputs, provisioned, kernel, result, macAddressToSet, applied, ipam0, thread>>

\* createMacvlan: netlink.LinkAdd(mv) creates the link inside the namespace
\* of the handle; the kernel refuses a name the target namespace already has
CmLinkAdd ==
    /\ pc = "cm_linkadd"
    /\ \/ /\ cm.tmpName \notin Names(nsLinks)
          /\ nsLinks' = nsLinks \cup {Macvlan(conf, cm.tmpName, cm.m, cm.mode)}
          /\ Goto("cm_enter", <<"linkadd:ok">>)
       \/ /\ nsLinks' = nsLinks
          /\ Return("LinkCreationFailed", <<"linkadd:err">>)
    /\ UNCHANGED <<inputs, provisioned, hostLinks, locals, thread>>

\* createMacvlan: netns.Do switches the thread to the target namespace, or
\* fails before the closure runs
CmEnter ==
    /\ pc = "cm_enter"
    /\ \/ /\ curNs' = "target" /\ threadNS' = curNs
          /\ Goto("cm_sysctl", <<"enter:ok">>)
       \/ /\ UNCHANGED thread
          /\ Return("NamespaceEnterFailed", <<"enter:err">>)
    /\ UNCHANGED <<inputs, provisioned, kernel, locals>>

\* `_ = netlink.LinkDel(mv)`: the link of the temporary name is deleted from
\* the thread's namespace, or the deletion fails and changes nothing
RollbackOutcomes(links, tmpName) == {Deleted(links, tmpName), links}

\* a createMacvlan that returns the error of the rollback deletion
AfterRollbackDelError(err, deleted) ==
    IF deleted THEN err ELSE "LinkDeleteFailed"

\* createMacvlan: `_ = netlink.LinkDel(mv)` drops the deletion's error and
\* the original error is returned
AfterRollback(err, deleted) == err

\* createMacvlan: set proxy_arp on the temporary name; on failure delete the
\* link, ignoring the deletion's error, and leave the namespace block
CmSysctl ==
    /\ pc = "cm_sysctl"
    /\ \/ /\ LinkByName(CurLinks, cm.tmpName) # {}
          /\ Goto("cm_rename", <<"sysctl:ok">>)
          /\ UNCHANGED <<nsLinks, thread>>
       \/ \E after \in RollbackOutcomes(nsLinks, cm.tmpName) :
            /\ nsLinks' = after
            /\ curNs' = Restore(threadNS) /\ threadNS' = "none"
            /\ Return(AfterRollback("ProxyArpSetupFailed", after # nsLinks),
                      <<"sysctl:err",
                        IF after = nsLinks THEN "linkdel:err" ELSE "linkdel:ok",
                        "exit">>)
    /\ UNCHANGED <<inputs, provisioned, hostLinks, locals>>

\* a renameLink that hands LinkSetName the current name
renameLinkToCurName(links, curName, newName) ==
    IF LinkByName(links, curName) = {} THEN [err |-> TRUE, links |-> links]
    ELSE [err |-> FALSE, links |-> Renamed(links, curName, curName)]

\* renameLink: LinkByName(curName) then LinkSetName(link, newName); the
\* kernel refuses a name that is taken
renameLink(links, curName, newName) ==
    IF LinkByName(links, curName) = {} THEN [err |-> TRUE, links |-> links]
    ELSE IF newName \in Names(links) THEN [err |-> TRUE, links |-> links]
    ELSE [err |-> FALSE, links |-> Renamed(links, curName, newName)]

\* createMacvlan: rename to ifName; on failure delete the link, ignoring the
\* deletion's error; either way the namespace block ends
CmRename ==
    /\ pc = "cm_rename"
    /\ \/ LET r == renameLink(CurLinks, cm.tmpName, args.IfName)
          IN  /\ ~r.err
              /\ nsLinks' = r.links
              /\ provisioned' = TRUE
              /\ Goto("add_ipam", <<"rename:ok", "exit">>)
       \/ \E after \in RollbackOutcomes(nsLinks, cm.tmpName) :
            /\ nsLinks' = after
            /\ provisioned' = provisioned
            /\ Return(AfterRollback("RenameFailed", after # nsLinks),
                      <<"rename:err",
                        IF after = nsLinks THEN "linkdel:err" ELSE "linkdel:ok",
                        "exit">>)
    /\ curNs' = Restore(threadNS) /\ threadNS' = "none"
    /\ UNCHANGED <<inputs, hostLinks, locals>>

(* ----------------------- cmdAdd, after the link ------------------------ *)

\* the results ipam.ExecAdd can deliver: none with an error, one without an
\* IPv4 section, or an IPv4 section with a gateway and a route list
IpamResults ==
    {[set |-> TRUE, IP4 |-> FALSE, Gateway |-> NilIP, Routes |-> <<>>, DNS |-> IpamDNS]}
    \cup {[set |-> TRUE, IP4 |-> TRUE, Gateway |-> g, Routes |-> rs, DNS |-> IpamDNS] :
             g \in GatewayValues, rs \in RouteLists}

\* a cmdAdd without the check of result.IP4
MissingIPv4Never(r) == FALSE

\* cmdAdd: result.IP4 == nil
MissingIPv4(r) == ~r.IP4

\* cmdAdd: ipam.ExecAdd, then the check for the IPv4 section
AddIpam ==
    /\ pc = "add_ipam"
    /\ \/ /\ result' = result
          /\ ipam0' = ipam0
          /\ Return("IpamFailed", <<"ipamadd:err">>)
       \/ \E r \in IpamResults :
            /\ result' = r
            /\ ipam0' = r
            /\ IF MissingIPv4(r)
               THEN Return("MissingIPv4Config", <<"ipamadd:ok">>)
               ELSE Goto("add_mac", <<"ipamadd:ok">>)
    /\ UNCHANGED <<inputs, provisioned, kernel, cm, macAddressToSet, applied, thread>>

\* a cmdAdd that always asks the lookup collaborator
UseOverrideNever(nArgs) == FALSE

\* cmdAdd: the explicit MACAddress argument wins over the lookup
UseOverride(nArgs) == nArgs.MACAddress # ""

\* findMACAddressForContainer: an address, or an error with no address
LookupOutcomes ==
    {[mac |-> m, err |-> "ok"] : m \in LookupMACs}
    \cup {[mac |-> "", err |-> "MacAddressLookupFailed"]}

\* a cmdAdd that ignores the error of findMACAddressForContainer
LookupNeverAborts(err) == FALSE

\* cmdAdd: an error of findMACAddressForContainer ends the command
LookupAborts(err) == err # "ok"

\* cmdAdd: macAddressToSet, from the argument or from
\* findMACAddressForContainer, whose error ends the command
AddMac ==
    /\ pc = "add_mac"
    /\ IF UseOverride(args)
       THEN /\ macAddressToSet' = args.MACAddress
            /\ Goto("add_enter", <<>>)
       ELSE \E out \in LookupOutcomes :
              /\ macAddressToSet' = out.mac
              /\ IF LookupAborts(out.err)
                 THEN Return(out.err, <<"lookup:err">>)
                 ELSE Goto("add_enter",
                           <<IF out.err = "ok" THEN "lookup:ok" ELSE "lookup:err">>)
    /\ UNCHANGED <<inputs, provisioned, kernel, cm, result, applied, ipam0, thread>>

\* cmdAdd: netns.Do switches the thread to the target namespace, or fails
\* before the closure runs
AddEnter ==
    /\ pc = "add_enter"
    /\ \/ /\ curNs' = "target" /\ threadNS' = curNs
          /\ Goto("add_setmac", <<"enter:ok">>)
       \/ /\ UNCHANGED thread
          /\ Return("NamespaceEnterFailed", <<"enter:err">>)
    /\ UNCHANGED <<inputs, provisioned, kernel, locals>>

\* cmdAdd: setInterfaceMacAddress(args.IfName, macAddressToSet) inside the
\* namespace block; applied.mac records the address it was handed
AddSetMac ==
    /\ pc = "add_setmac"
    /\ applied' = [applied EXCEPT !.mac = macAddressToSet]
    /\ \/ /\ LinkByName(CurLinks, args.IfName) # {}
          /\ UNCHANGED thread
          /\ Goto("add_defaultgw", <<"setmac:ok">>)
       \/ /\ curNs' = Restore(threadNS) /\ threadNS' = "none"
          /\ Return("MacAddressSetFailed", <<"setmac:err", "exit">>)
    /\ UNCHANGED <<inputs, provisioned, kernel, cm, result, macAddressToSet, ipam0>>

\* a scan that stops after the first route
GatewayConflictFirstOnly(routes, gateway) ==
    /\ Len(routes) > 0
    /\ IPNetString(defaultNet) = IPNetString(routes[1].Dst)
    /\ routes[1].GW # NilIP
    /\ ~IPEqual(routes[1].GW, gateway)

\* a scan without the check that the route's gateway is set
GatewayConflictNilToo(routes, gateway) ==
    \E i \in 1..Len(routes) :
        /\ IPNetString(defaultNet) = IPNetString(routes[i].Dst)
        /\ ~IPEqual(routes[i].GW, gateway)

\* an append that is skipped when the list already has a default route
WithDefaultRouteOnce(routes, gateway) ==
    IF \E i \in 1..Len(routes) : IPNetString(defaultNet) = IPNetString(routes[i].Dst)
    THEN routes
    ELSE Append(routes, [Dst |-> defaultNet, GW |-> gateway])

\* a default route put in front of the IPAM routes
WithDefaultRouteFirst(routes, gateway) ==
    <<[Dst |-> defaultNet, GW |-> gateway]>> \o routes

\* cmdAdd: the scan of result.IP4.Routes for a default route via another
\* gateway than result.IP4.Gateway
GatewayConflict(routes, gateway) ==
    \E i \in 1..Len(routes) :
        /\ IPNetString(defaultNet) = IPNetString(routes[i].Dst)
        /\ routes[i].GW # NilIP
        /\ ~IPEqual(routes[i].GW, gateway)

\* cmdAdd: append(result.IP4.Routes, types.Route{Dst: *defaultNet, GW: gateway})
WithDefaultRoute(routes, gateway) ==
    Append(routes, [Dst |-> defaultNet, GW |-> gateway])

\* cmdAdd: the isDefaultGateway block
AddDefaultGW ==
    /\ pc = "add_defaultgw"
    /\ IF conf.IsDefaultGW
       THEN IF GatewayConflict(result.Routes, result.Gateway)
            THEN /\ result' = result
                 /\ curNs' = Restore(threadNS) /\ threadNS' = "none"
                 /\ Return("GatewayConflict", <<"exit">>)
            ELSE /\ result' = [result EXCEPT
                                 !.Routes = WithDefaultRoute(result.Routes, result.Gateway)]
                 /\ UNCHANGED thread
                 /\ Goto("add_configure", <<>>)
       ELSE /\ result' = result
            /\ UNCHANGED thread
            /\ Goto("add_configure", <<>>)
    /\ UNCHANGED <<inputs, provisioned, kernel, cm, macAddressToSet, applied, ipam0>>

\* configureInterface: the link comes up with the result's addresses and routes
Configured(links, name) ==
    {IF l.name = name THEN [l EXCEPT !.up = TRUE] ELSE l : l \in links}

\* cmdAdd: configureInterface(args.IfName, result) ends the namespace block
AddConfigure ==
    /\ pc = "add_configure"
    /\ applied' = [applied EXCEPT !.called = TRUE, !.Routes = result.Routes]
    /\ \/ /\ LinkByName(CurLinks, args.IfName) # {}
          /\ nsLinks' = Configured(nsLinks, args.IfName)
          /\ Goto("add_print", <<"configure:ok", "exit">>)
       \/ /\ nsLinks' = nsLinks
          /\ Return("InterfaceConfigFailed", <<"configure:err", "exit">>)
    /\ curNs' = Restore(threadNS) /\ threadNS' = "none"
    /\ UNCHANGED <<inputs, provisioned, hostLinks, cm, result, macAddressToSet, ipam0>>

\* result.Print(): the result is written to stdout, or marshalling or the
\* write fails
PrintOutcomes == {"ok", "PrintFailed"}

\* cmdAdd: result.DNS = n.DNS; return result.Print()
AddPrint ==
    /\ pc = "add_print"
    /\ result' = [result EXCEPT !.DNS = conf.DNS]
    /\ \E err \in PrintOutcomes :
         Return(err, <<IF err = "ok" THEN "print:ok" ELSE "print:err">>)
    /\ UNCHANGED <<inputs, provisioned, kernel, cm, macAddressToSet, applied, ipam0, thread>>

(* ------------------------------ cmdDel -------------------------------- *)

\* skel.PluginMain dispatches DEL; cmdDel reads the master, the IPAM section,
\* args.Netns and args.IfName only
StartDel ==
    /\ pc = "idle"
    /\ ncmds < MaxCmds
    /\ \E v \in BOOLEAN, ma \in MasterNames :
         conf' = [NoConf EXCEPT !.valid = v, !.Master = ma]
    /\ \E i \in IfNames, n \in NetnsPaths :
         args' = [NoArgs EXCEPT !.valid = TRUE, !.IfName = i, !.Netns = n]
    /\ cmd' = "DEL"
    /\ pc' = "del_load"
    /\ nsLinks0' = nsLinks
    /\ ncmds' = ncmds + 1
    /\ UNCHANGED <<kernel, provisioned, thread, handle, locals, ret, trace>>

\* cmdDel: loadConf
DelLoad ==
    /\ pc = "del_load"
    /\ IF loadConf(conf) # "ok" THEN Return(loadConf(conf), <<>>)
       ELSE Goto("del_ipam", <<>>)
    /\ UNCHANGED <<inputs, provisioned, kernel, locals, thread>>

\* a cmdDel that ignores the error of ipam.ExecDel
ExecDelNeverAborts(err) == FALSE

\* cmdDel: an error of ipam.ExecDel ends the command
ExecDelAborts(err) == err # "ok"

\* cmdDel: ipam.ExecDel
DelIpam ==
    /\ pc = "del_ipam"
    /\ \E err \in {"ok", "IpamFailed"} :
         IF ExecDelAborts(err)
         THEN Return(err, <<"ipamdel:err">>)
         ELSE Goto("del_netns", <<IF err = "ok" THEN "ipamdel:ok" ELSE "ipamdel:err">>)
    /\ UNCHANGED <<inputs, provisioned, kernel, locals, thread>>

\* a cmdDel without the check for an empty path
NoNamespaceNever(netns) == FALSE

\* cmdDel: no namespace path, nothing to delete
NoNamespace(netns) == netns = ""

\* cmdDel: the check of args.Netns
DelNetns ==
    /\ pc = "del_netns"
    /\ IF NoNamespace(args.Netns) THEN Return("ok", <<>>)
       ELSE Goto("del_open", <<>>)
    /\ UNCHANGED <<inputs, provisioned, kernel, locals, thread>>

\* cmdDel: ns.WithNetNSPath opens the namespace at the path and switches the
\* thread to it; either can fail before the closure runs
DelOpen ==
    /\ pc = "del_open"
    /\ IF ~NsOpens(args.Netns)
       THEN /\ UNCHANGED thread
            /\ Return("NamespaceNotFound", <<"getns:err">>)
       ELSE \/ /\ curNs' = "target" /\ threadNS' = curNs
               /\ Goto("del_link", <<"getns:ok", "enter:ok">>)
            \/ /\ UNCHANGED thread
               /\ Return("NamespaceEnterFailed", <<"getns:ok", "enter:err">>)
    /\ UNCHANGED <<inputs, provisioned, kernel, locals>>

\* ip.DelLinkByName: LinkByName, then LinkDel; both errors are returned
DelLinkByName(links, ifName) ==
    IF LinkByName(links, ifName) = {}
    THEN {[err |-> "LinkNotFound", links |-> links, evs |-> <<"linkbyname:err">>]}
    ELSE {[err |-> "ok", links |-> Deleted(links, ifName),
           evs |-> <<"linkbyname:ok", "linkdel:ok">>],
          [err |-> "LinkDeleteFailed", links |-> links,
           evs |-> <<"linkbyname:ok", "linkdel:err">>]}

\* cmdDel: the closure's result is the command's result
DelLink ==
    /\ pc = "del_link"
    /\ \E r \in DelLinkByName(CurLinks, args.IfName) :
         /\ nsLinks' = r.links
         /\ provisioned' = IF r.err = "ok" THEN FALSE ELSE provisioned
         /\ Return(r.err, r.evs \o <<"exit">>)
    /\ curNs' = Restore(threadNS) /\ threadNS' = "none"
    /\ UNCHANGED <<inputs, hostLinks, locals>>

\* main: skel.PluginMain returns and the process ends; only the kernel's
\* links outlive it
Exit ==
    /\ pc = "done"
    /\ pc' = "idle"
    /\ cmd' = "none"
    /\ conf' = NoConf
    /\ args' = NoArgs
    /\ handle' = "none"
    /\ cm' = NoCm
    /\ result' = NoResult
    /\ macAddressToSet' = ""
    /\ applied' = NoApplied
    /\ ipam0' = NoResult
    /\ ret' = "none"
    /\ trace' = <<>>
    /\ nsLinks0' = nsLinks
    /\ UNCHANGED <<kernel, provisioned, thread, ncmds>>

(* --------------------------- specification ---------------------------- *)

Next ==
    \/ StartAdd
    \/ AddLoad
    \/ AddGetNS
    \/ AddCheckInterface
    \/ AddSetInterfaceDown
    \/ CmMode
    \/ CmMaster
    \/ CmTmpName
    \/ CmLinkAdd
    \/ CmEnter
    \/ CmSysctl
    \/ CmRename
    \/ AddIpam
    \/ AddMac
    \/ AddEnter
    \/ AddSetMac
    \/ AddDefaultGW
    \/ AddConfigure
    \/ AddPrint
    \/ StartDel
    \/ DelLoad
    \/ DelIpam
    \/ DelNetns
    \/ DelOpen
    \/ DelLink
    \/ Exit

Spec == Init /\ [][Next]_vars

TypeOK ==
    /\ cmd \in {"none", "ADD", "DEL"}
    /\ curNs \in {"host", "target"}
    /\ handle \in {"none", "open", "closed"}
    /\ ncmds \in 0..MaxCmds
    /\ Len(result.Routes) <= MaxRoutes + 1

(* ------------------------------ claims -------------------------------- *)

Events == {trace[i] : i \in 1..Len(trace)}

\* createMacvlan was called, resolved the master and returned an error
CreateFailed ==
    /\ cmd = "ADD"
    /\ pc = "done"
    /\ "master:ok" \in Events
    /\ "rename:ok" \notin Events

\* createMacvlan has just returned nil to cmdAdd
CreateSucceeded ==
    /\ cmd = "ADD"
    /\ pc = "add_ipam"
    /\ "rename:ok" \in Events

\* C1: when createMacvlan fails after the master link was resolved, no link
\* with the temporary name or with ifName is left in the target namespace,
\* and the plugin left no such macvlan in the calling namespace.
C1_NoLeakOnFailure ==
    CreateFailed =>
        \A n \in {cm.tmpName, args.IfName} :
            /\ n \notin Names(nsLinks)
            /\ \A l \in hostLinks : l.name = n => l.type # "macvlan"

\* the link the claim C2 describes: a macvlan named ifName on the master's
\* index with the resolved mode and the configured MTU
ExpectedLink ==
    [name |-> args.IfName, type |-> "macvlan",
     parent |-> (CHOOSE l \in hostLinks : l.name = conf.Master).index,
     mode |-> modeFromString(conf.Mode).mode, mtu |-> conf.MTU, up |-> FALSE]

\* C2 (as claimed): after a successful createMacvlan the target namespace
\* holds exactly one link named ifName, the expected macvlan, and no link of
\* the temporary name, and the calling namespace holds neither name.
C2_Original ==
    CreateSucceeded =>
        /\ LinkByName(nsLinks, args.IfName) = {ExpectedLink}
        /\ cm.tmpName \notin Names(nsLinks)
        /\ Names(hostLinks) \cap {cm.tmpName, args.IfName} = {}

\* C2 (amended): after a successful createMacvlan the target namespace holds
\* exactly one link named ifName, the expected macvlan, and no link of the
\* temporary name; the calling namespace has the links it had before, none
\* of them a macvlan and none with the temporary name.
C2_CreatedLink ==
    CreateSucceeded =>
        /\ LinkByName(nsLinks, args.IfName) = {ExpectedLink}
        /\ cm.tmpName \notin Names(nsLinks)
        /\ hostLinks = HostLinks0
        /\ cm.tmpName \notin Names(hostLinks)
        /\ \A l \in hostLinks : l.type # "macvlan"

C2_Witness ==
    /\ CreateSucceeded
    /\ conf.MTU # 0
    /\ conf.Mode = "vepa"
    /\ args.IfName \in Names(hostLinks)

\* the address a gateway stands for, whatever its byte length
Canon(ip) == IF ip = GwA16 THEN GwA ELSE ip

\* the destinations that are 0.0.0.0/0
IsDefaultDst(d) == d \in {defaultNet, DstDefault16}

\* the IPAM result holds a default route via a non-nil gateway other than
\* the IPAM-assigned one
IpamConflict ==
    \E i \in 1..Len(ipam0.Routes) :
        /\ IsDefaultDst(ipam0.Routes[i].Dst)
        /\ ipam0.Routes[i].GW # NilIP
        /\ Canon(ipam0.Routes[i].GW) # Canon(ipam0.Gateway)

\* C3: with isDefaultGateway and an IPAM default route via another non-nil
\* gateway, ADD never reaches configureInterface, never changes the route
\* list, and once the MAC address is set it ends with GatewayConflict.
C3_GatewayConflict ==
    (cmd = "ADD" /\ conf.IsDefaultGW /\ ipam0.IP4 /\ IpamConflict) =>
        /\ result.Routes = ipam0.Routes
        /\ ~applied.called
        /\ pc \notin {"add_configure", "add_print"}
        /\ ret # "ok"
        /\ (pc = "done" /\ "setmac:ok" \in Events) => ret = "GatewayConflict"

C3_Witness ==
    /\ cmd = "ADD"
    /\ pc = "done"
    /\ ret = "GatewayConflict"
    /\ Len(ipam0.Routes) = 2
    /\ ~IsDefaultDst(ipam0.Routes[1].Dst)
    /\ result.Routes = ipam0.Routes

\* C4: with isDefaultGateway and no IPAM route to 0.0.0.0/0, the route list
\* handed to configureInterface, and the one of the printed result, is the
\* IPAM list followed by one default route via the IPAM gateway.
C4_DefaultRouteAppended ==
    (/\ cmd = "ADD"
     /\ conf.IsDefaultGW
     /\ ipam0.IP4
     /\ \A i \in 1..Len(ipam0.Routes) : ~IsDefaultDst(ipam0.Routes[i].Dst)) =>
        LET want == ipam0.Routes \o <<[Dst |-> defaultNet, GW |-> ipam0.Gateway]>>
        IN  /\ applied.called => applied.Routes = want
            /\ pc \in {"add_configure", "add_print"} => result.Routes = want
            /\ ret = "ok" => (applied.called /\ result.Routes = want)
            /\ ret # "GatewayConflict"

C4_Witness ==
    /\ cmd = "ADD"
    /\ conf.IsDefaultGW
    /\ ret = "ok"
    /\ Len(ipam0.Routes) = 2
    /\ \A i \in 1..Len(ipam0.Routes) : ~IsDefaultDst(ipam0.Routes[i].Dst)
    /\ ipam0.Routes[1] # ipam0.Routes[2]
    /\ Len(applied.Routes) = 3

\* C5: a DEL whose IPAM release succeeded and whose namespace path cannot be
\* opened returns success.
C5_DelGoneNamespaceSucceeds ==
    (cmd = "DEL" /\ pc = "done" /\ "ipamdel:ok" \in Events /\ args.Netns = NsGone) =>
        ret = "ok"

\* calls that open or enter a namespace or look up or delete a link
NsOrLinkEvents ==
    {"getns:ok", "getns:err", "enter:ok", "enter:err", "linkbyname:ok",
     "linkbyname:err", "linkdel:ok", "linkdel:err"}

\* C6: a DEL with an empty namespace path whose IPAM release succeeded
\* returns success, opens no namespace, deletes no link and leaves the links
\* of both namespaces as they were.
C6_DelEmptyPath ==
    (cmd = "DEL" /\ "ipamdel:ok" \in Events /\ args.Netns = "") =>
        /\ Events \cap NsOrLinkEvents = {}
        /\ nsLinks = nsLinks0
        /\ hostLinks = HostLinks0
        /\ pc \in {"del_netns", "done"}
        /\ pc = "done" => ret = "ok"

C6_Witness ==
    /\ cmd = "DEL"
    /\ pc = "done"
    /\ args.Netns = ""
    /\ "ipamdel:ok" \in Events
    /\ ret = "ok"
    /\ LinkByName(nsLinks, args.IfName) # {}

\* C7: a DEL that enters a namespace holding no link named ifName returns
\* success, and any error of the link deletion is the command's error.
C7_DelAbsentLinkSucceeds ==
    (cmd = "DEL" /\ pc = "done" /\ "enter:ok" \in Events) =>
        /\ LinkByName(nsLinks0, args.IfName) = {} => ret = "ok"
        /\ "linkdel:err" \in Events => ret = "LinkDeleteFailed"

\* C8: a DEL whose IPAM release failed returns that error without opening
\* the namespace or deleting a link, so the links are as before; and no DEL
\* looks up or deletes a link before the IPAM release succeeded.
C8_DelIpamFirst ==
    cmd = "DEL" =>
        /\ "ipamdel:err" \in Events =>
              /\ pc = "done"
              /\ ret = "IpamFailed"
              /\ Events \cap NsOrLinkEvents = {}
              /\ nsLinks = nsLinks0
        /\ Events \cap NsOrLinkEvents # {} =>
              (Len(trace) > 0 /\ trace[1] = "ipamdel:ok")
        /\ nsLinks # nsLinks0 => "ipamdel:ok" \in Events

C8_Witness ==
    /\ cmd = "DEL"
    /\ pc = "done"
    /\ ret = "IpamFailed"
    /\ args.Netns = NsGood
    /\ LinkByName(nsLinks, args.IfName) # {}

\* C9: an ADD with a MACAddress argument never calls the lookup and hands
\* exactly that address to setInterfaceMacAddress; the lookup runs only
\* without the argument, and its error ends ADD before the interface is
\* touched.
C9_MacOverride ==
    cmd = "ADD" =>
        /\ args.MACAddress # "" =>
              /\ Events \cap {"lookup:ok", "lookup:err"} = {}
              /\ Events \cap {"setmac:ok", "setmac:err"} # {} =>
                    applied.mac = args.MACAddress
        /\ Events \cap {"lookup:ok", "lookup:err"} # {} => args.MACAddress = ""
        /\ "lookup:err" \in Events =>
              /\ pc = "done"
              /\ ret = "MacAddressLookupFailed"
              /\ Events \cap {"setmac:ok", "setmac:err", "configure:ok",
                              "configure:err"} = {}
              /\ ~applied.called

C9_Witness ==
    /\ cmd = "ADD"
    /\ args.MACAddress # ""
    /\ "setmac:ok" \in Events
    /\ applied.mac = args.MACAddress
    /\ ret = "ok"

\* C10: an ADD that finds ifName in the container's namespace never calls
\* createMacvlan and adds no link, tries to set the interface down, and goes
\* on to the IPAM step whether or not that worked.
C10_ReuseExisting ==
    (cmd = "ADD" /\ "check:present" \in Events) =>
        /\ Events \cap {"createMacvlan", "linkadd:ok", "linkadd:err"} = {}
        /\ Cardinality(nsLinks) = Cardinality(nsLinks0)
        /\ Names(nsLinks) = Names(nsLinks0)
        /\ pc # "add_setdown" => Events \cap {"setdown:ok", "setdown:err"} # {}
        /\ pc \notin {"cm_mode", "cm_master", "cm_tmpname", "cm_linkadd",
                      "cm_enter", "cm_sysctl", "cm_rename"}
        /\ pc = "done" => Events \cap {"ipamadd:ok", "ipamadd:err"} # {}

C10_Witness ==
    /\ cmd = "ADD"
    /\ "check:present" \in Events
    /\ "setdown:err" \in Events
    /\ "configure:ok" \in Events
    /\ ret = "ok"

\* C11: over any sequence of ADDs and DELs a link named ifName is in the
\* target namespace exactly when an ADD finished its link step (by creating
\* or by reusing) and no later DEL deleted it; an ADD that failed before or
\* during that step adds no such link, and a DEL of that namespace that
\* returned success leaves none.
C11_LinkIffProvisioned ==
    \A i \in IfNames :
        /\ (LinkByName(nsLinks, i) # {}) <=> provisioned
        /\ Cardinality(LinkByName(nsLinks, i)) <= 1
        /\ (cmd = "ADD" /\ pc = "done"
              /\ Events \cap {"rename:ok", "check:present"} = {}) =>
                 (LinkByName(nsLinks, i) = LinkByName(nsLinks0, i))
        /\ (cmd = "DEL" /\ pc = "done" /\ ret = "ok" /\ args.Netns = NsGood) =>
                 LinkByName(nsLinks, i) = {}

C11_Witness ==
    /\ cmd = "DEL"
    /\ pc = "done"
    /\ ret = "ok"
    /\ args.Netns = NsGood
    /\ LinkByName(nsLinks0, args.IfName) # {}
    /\ LinkByName(nsLinks, args.IfName) = {}
    /\ ~provisioned

\* the step of cmdAdd a call belongs to; calls both namespace blocks make
\* (enter, exit, the rollback deletion) have none
Step(e) ==
    CASE e \in {"getns:ok", "getns:err"} -> 2
      [] e \in {"check:present", "check:absent", "createMacvlan", "master:ok",
                "master:err", "linkadd:ok", "linkadd:err", "sysctl:ok",
                "sysctl:err", "rename:ok", "rename:err", "setdown:ok",
                "setdown:err"} -> 3
      [] e \in {"ipamadd:ok", "ipamadd:err"} -> 4
      [] e \in {"lookup:ok", "lookup:err"} -> 5
      [] e \in {"setmac:ok", "setmac:err", "configure:ok", "configure:err"} -> 6
      [] e \in {"print:ok", "print:err"} -> 7
      [] OTHER -> 0

HasStep(e) == Step(e) # 0

\* the calls whose failure ends ADD
FatalEvents ==
    {"getns:err", "master:err", "linkadd:err", "enter:err", "sysctl:err",
     "rename:err", "ipamadd:err", "lookup:err", "setmac:err", "configure:err",
     "print:err"}

\* what may still follow a fatal failure: leaving the block and its
\* rollback, and the deferred Close
CleanupEvents == {"linkdel:ok", "linkdel:err", "exit", "close"}

\* C12: ADD takes its steps in the order namespace, link, IPAM, MAC,
\* configuration, result; after a failed step no later step runs and the
\* command has failed; the result is printed only after the configuration
\* succeeded.
C12_AddStepOrder ==
    cmd = "ADD" =>
        LET steps == SelectSeq(trace, HasStep)
            evs == Events
        IN
        /\ \A i \in 1..(Len(steps) - 1) : Step(steps[i]) <= Step(steps[i + 1])
        /\ \A i \in {k \in 1..Len(trace) : trace[k] \in FatalEvents} :
              \A j \in (i + 1)..Len(trace) : trace[j] \in CleanupEvents
        /\ evs \cap FatalEvents # {} => (pc = "done" /\ ret \notin {"ok", "none"})
        /\ evs \cap {"ipamadd:ok", "ipamadd:err"} # {} =>
              /\ "getns:ok" \in evs
              /\ evs \cap {"rename:ok", "setdown:ok", "setdown:err"} # {}
        /\ evs \cap {"lookup:ok", "lookup:err"} # {} =>
              ("ipamadd:ok" \in evs /\ ipam0.IP4)
        /\ evs \cap {"setmac:ok", "setmac:err"} # {} =>
              /\ "ipamadd:ok" \in evs
              /\ ipam0.IP4
              /\ ("lookup:ok" \in evs \/ args.MACAddress # "")
        /\ evs \cap {"configure:ok", "configure:err"} # {} => "setmac:ok" \in evs
        /\ evs \cap {"print:ok", "print:err"} # {} => "configure:ok" \in evs
        /\ ret = "ok" => "print:ok" \in evs

C12_Witness ==
    /\ cmd = "ADD"
    /\ pc = "done"
    /\ ret = "ok"
    /\ "rename:ok" \in Events
    /\ "lookup:ok" \in Events
    /\ "configure:ok" \in Events

\* position of the first occurrence of a call in the trace, 0 if none
FirstAt(e) ==
    IF e \in Events THEN CHOOSE i \in 1..Len(trace) :
                            trace[i] = e /\ \A j \in 1..(i - 1) : trace[j] # e
    ELSE 0

\* C13: in createMacvlan, mode and master are resolved in the calling
\* namespace before any link exists; the link appears under the temporary
\* name directly in the target namespace, never in the calling one;
\* proxy-ARP is set on the temporary name and only then the link is renamed,
\* both in the target namespace; a failed link creation is followed by no
\* namespace entry and no deletion.
C13_CreateOrder ==
    cmd = "ADD" =>
        /\ pc \in {"cm_mode", "cm_master", "cm_tmpname", "cm_linkadd"} =>
              /\ curNs = "host"
              /\ nsLinks = nsLinks0
              /\ "linkadd:ok" \notin Events
        /\ pc = "cm_enter" =>
              /\ curNs = "host"
              /\ nsLinks = nsLinks0 \cup
                    {[name |-> cm.tmpName, type |-> "macvlan", parent |-> cm.m,
                      mode |-> cm.mode, mtu |-> conf.MTU, up |-> FALSE]}
              /\ cm.tmpName \notin Names(nsLinks0)
        /\ pc \in {"cm_sysctl", "cm_rename"} =>
              /\ curNs = "target"
              /\ LinkByName(nsLinks, cm.tmpName) # {}
              /\ LinkByName(nsLinks, args.IfName) = {}
        /\ pc = "cm_rename" => "sysctl:ok" \in Events
        /\ "rename:ok" \in Events =>
              /\ FirstAt("master:ok") < FirstAt("linkadd:ok")
              /\ FirstAt("linkadd:ok") < FirstAt("enter:ok")
              /\ FirstAt("enter:ok") < FirstAt("sysctl:ok")
              /\ FirstAt("sysctl:ok") < FirstAt("rename:ok")
        /\ "linkadd:err" \in Events =>
              /\ Events \cap {"enter:ok", "enter:err", "linkdel:ok", "linkdel:err"} = {}
              /\ nsLinks = nsLinks0
        /\ hostLinks = HostLinks0

C13_Witness ==
    /\ cmd = "ADD"
    /\ pc = "cm_rename"
    /\ curNs = "target"
    /\ "sysctl:ok" \in Events
    /\ LinkByName(nsLinks, cm.tmpName) # {}
    /\ conf.Mode = "vepa"

\* C14: when the rollback deletion in createMacvlan fails, ADD still
\* returns the proxy-ARP or rename error that caused the rollback.
C14_RollbackKeepsError ==
    (cmd = "ADD" /\ "linkdel:err" \in Events) =>
        /\ pc = "done"
        /\ "sysctl:err" \in Events => ret = "ProxyArpSetupFailed"
        /\ "rename:err" \in Events => ret = "RenameFailed"
        /\ Events \cap {"sysctl:err", "rename:err"} # {}

C14_Witness ==
    /\ cmd = "ADD"
    /\ pc = "done"
    /\ "rename:err" \in Events
    /\ "linkdel:err" \in Events
    /\ ret = "RenameFailed"
    /\ LinkByName(nsLinks, cm.tmpName) # {}

\* number of occurrences of a call in the trace
Count(e) == Cardinality({i \in 1..Len(trace) : trace[i] = e})

\* C15: an ADD that opened the namespace handle closes it exactly once on
\* every return, as its last call; until then the handle is open; an ADD
\* that did not open it closes nothing.
C15_HandleClosedOnce ==
    cmd = "ADD" =>
        /\ "getns:ok" \notin Events => (handle = "none" /\ Count("close") = 0)
        /\ ("getns:ok" \in Events /\ pc # "done") =>
              (handle = "open" /\ Count("close") = 0)
        /\ ("getns:ok" \in Events /\ pc = "done") =>
              /\ handle = "closed"
              /\ Count("close") = 1
              /\ trace[Len(trace)] = "close"

C15_Witness ==
    /\ cmd = "ADD"
    /\ pc = "done"
    /\ ret = "MacAddressLookupFailed"
    /\ handle = "closed"
    /\ trace[Len(trace)] = "close"

\* the labels inside a namespace block
BlockLabels ==
    {"cm_sysctl", "cm_rename", "add_setmac", "add_defaultgw", "add_configure",
     "del_link"}

\* C16: the thread is in the target namespace exactly while control is
\* inside one of the namespace blocks of createMacvlan, cmdAdd and cmdDel,
\* and back in the calling namespace after every exit of a block; a block
\* is entered only from the calling namespace, so blocks never nest.
C16_NamespaceRestored ==
    /\ pc \in BlockLabels => (curNs = "target" /\ threadNS = "host")
    /\ pc \notin BlockLabels => (curNs = "host" /\ threadNS = "none")
    /\ Count("enter:ok") - Count("exit") = (IF pc \in BlockLabels THEN 1 ELSE 0)
    /\ \A i \in 1..Len(trace) :
          trace[i] \in {"master:ok", "master:err", "linkadd:ok", "linkadd:err",
                        "ipamadd:ok", "ipamadd:err", "lookup:ok", "lookup:err"} =>
              Cardinality({j \in 1..i : trace[j] = "enter:ok"})
                = Cardinality({j \in 1..i : trace[j] = "exit"})

C16_Witness ==
    /\ cmd = "ADD"
    /\ pc = "done"
    /\ ret = "GatewayConflict"
    /\ Count("enter:ok") = 2
    /\ Count("exit") = 2
    /\ curNs = "host"

\* the IPAM result holds a default route whose gateway, nil or not, is
\* another one than the IPAM-assigned gateway
IpamGatewayDiffers ==
    \E i \in 1..Len(ipam0.Routes) :
        /\ IsDefaultDst(ipam0.Routes[i].Dst)
        /\ Canon(ipam0.Routes[i].GW) # Canon(ipam0.Gateway)

\* the isDefaultGateway block of this ADD has been decided
GatewayDecided ==
    /\ cmd = "ADD"
    /\ conf.IsDefaultGW
    /\ "setmac:ok" \in Events
    /\ pc # "add_defaultgw"

\* C17 (as claimed): with isDefaultGateway, ADD fails with GatewayConflict
\* whenever an IPAM default route has a gateway other than the IPAM-assigned
\* one, a nil gateway included.
C17_Original ==
    (GatewayDecided /\ IpamGatewayDiffers) => ret = "GatewayConflict"

\* C17 (amended): with isDefaultGateway, ADD fails with GatewayConflict
\* exactly when an IPAM default route has a non-nil gateway other than the
\* IPAM-assigned one; a default route without a gateway is no conflict.
C17_ConflictIffNonNil ==
    /\ GatewayDecided => (ret = "GatewayConflict" <=> IpamConflict)
    /\ ret = "GatewayConflict" => (cmd = "ADD" /\ conf.IsDefaultGW)

C17_Witness ==
    /\ GatewayDecided
    /\ IpamGatewayDiffers
    /\ ~IpamConflict
    /\ ipam0.Gateway # NilIP
    /\ ret = "ok"

\* C18: an ADD whose IPAM result has no IPv4 section fails with
\* MissingIPv4Config right after ipam.ExecAdd: no MAC address is resolved,
\* the target namespace is not entered again, and the interface's MAC
\* address, addresses and routes are not touched.
C18_MissingIPv4 ==
    (cmd = "ADD" /\ ipam0.set /\ ~ipam0.IP4) =>
        /\ pc = "done"
        /\ ret = "MissingIPv4Config"
        /\ Events \cap {"lookup:ok", "lookup:err", "setmac:ok", "setmac:err",
                        "configure:ok", "configure:err", "print:ok",
                        "print:err"} = {}
        /\ macAddressToSet = ""
        /\ applied = NoApplied
        /\ Len(trace) >= 2
        /\ trace[Len(trace) - 1] = "ipamadd:ok"
        /\ trace[Len(trace)] = "close"
        /\ curNs = "host"

C18_Witness ==
    /\ cmd = "ADD"
    /\ ipam0.set
    /\ ~ipam0.IP4
    /\ ret = "MissingIPv4Config"
    /\ args.MACAddress = ""
    /\ LinkByName(nsLinks, args.IfName) # {}

\* this ADD finished its link step, by creating or by reusing
LinkStepDone ==
    /\ cmd = "ADD"
    /\ Events \cap {"rename:ok", "setdown:ok", "setdown:err"} # {}

\* C19: an ADD that fails after its link step (IPAM, missing IPv4, MAC
\* lookup, entering the namespace, MAC set, gateway conflict, configuration,
\* printing the result) calls neither the IPAM release nor a link deletion, so the link named
\* ifName stays; an ADD that starts with that link in the namespace takes
\* the reuse branch and adds no link.
C19_NoCompensation ==
    /\ (LinkStepDone /\ pc = "done" /\ ret # "ok") =>
          /\ ret \in {"IpamFailed", "MissingIPv4Config", "MacAddressLookupFailed",
                      "NamespaceEnterFailed", "MacAddressSetFailed",
                      "GatewayConflict", "InterfaceConfigFailed", "PrintFailed"}
          /\ Events \cap {"ipamdel:ok", "ipamdel:err", "linkdel:ok", "linkdel:err",
                          "linkbyname:ok", "linkbyname:err"} = {}
          /\ Cardinality(LinkByName(nsLinks, args.IfName)) = 1
          /\ Names(nsLinks) = Names(nsLinks0) \cup {args.IfName}
    /\ (/\ cmd = "ADD"
        /\ LinkByName(nsLinks0, args.IfName) # {}
        /\ Events \cap {"check:present", "check:absent"} # {}) =>
          /\ "check:present" \in Events
          /\ Events \cap {"createMacvlan", "linkadd:ok", "linkadd:err"} = {}
          /\ Names(nsLinks) = Names(nsLinks0)
          /\ Cardinality(nsLinks) = Cardinality(nsLinks0)

C19_Witness ==
    /\ cmd = "ADD"
    /\ ncmds = 2
    /\ \E l \in nsLinks0 : l.name = args.IfName /\ ~l.up
    /\ "check:present" \in Events
    /\ pc = "done"
    /\ ret = "ok"
    /\ Cardinality(nsLinks) = 1

\* the routes of a list that go to 0.0.0.0/0
DefaultRoutes(routes) == {i \in 1..Len(routes) : IsDefaultDst(routes[i].Dst)}

\* C20: with isDefaultGateway and an IPAM default route via the IPAM gateway
\* or via no gateway, no conflict is reported and one more default route via
\* the IPAM gateway is appended, so the list handed to configureInterface
\* has at least two routes to 0.0.0.0/0; without isDefaultGateway the list
\* is handed over exactly as IPAM returned it.
C20_SecondDefaultRoute ==
    (cmd = "ADD" /\ ipam0.IP4) =>
        /\ (conf.IsDefaultGW /\ DefaultRoutes(ipam0.Routes) # {} /\ ~IpamConflict) =>
              /\ ret # "GatewayConflict"
              /\ applied.called =>
                    /\ applied.Routes =
                          ipam0.Routes \o <<[Dst |-> defaultNet, GW |-> ipam0.Gateway]>>
                    /\ Cardinality(DefaultRoutes(applied.Routes))
                          = Cardinality(DefaultRoutes(ipam0.Routes)) + 1
                    /\ Cardinality(DefaultRoutes(applied.Routes)) >= 2
              /\ ret = "ok" => (applied.called /\ result.Routes = applied.Routes)
        /\ ~conf.IsDefaultGW =>
              /\ result.Routes = ipam0.Routes
              /\ applied.called => applied.Routes = ipam0.Routes
              /\ ret # "GatewayConflict"

C20_Witness ==
    /\ cmd = "ADD"
    /\ conf.IsDefaultGW
    /\ ret = "ok"
    /\ Len(ipam0.Routes) = 1
    /\ ipam0.Routes[1].Dst = DstDefault16
    /\ ipam0.Gateway = GwA
    /\ Cardinality(DefaultRoutes(applied.Routes)) = 2

====
